---- MODULE Spec2Model ----
(***************************************************************************)
(* The fallback-chained retrieval pipeline of the web search server:       *)
(*   search_web (main.py)  ->  WebSearcher.search (DuckDuckGo client)      *)
(*                         ->  WebSearcher.search_alternative (scrape)     *)
(*                         ->  WebSearcher.get_fallback_results (static)   *)
(* One invocation of the tool is followed statement by statement; the      *)
(* answers of the DuckDuckGo client and of the HTTP GET are the inputs.    *)
(* Texts are strings; an href is a sequence of characters, so that the     *)
(* prefix test and the two splits of the scraper are computed.  The        *)
(* wall-clock field search_time_seconds of the outcome is not modelled.    *)
(***************************************************************************)
EXTENDS Integers, Sequences, FiniteSets, TLC

VARIABLES
  pc,           \* the statement the invocation is at
  topic,        \* search_web's parameter topic (the strategies' query)
  num_results,  \* search_web's parameter num_results
  results,      \* the local list `results` of the running strategy
  search_divs,  \* search_alternative's search_divs
  idx,          \* position of search_alternative's for loop in search_divs
  caller,       \* who awaits the running search_alternative call
  swResults,    \* search_web's local `results`
  ddg_results,  \* search's ddg_results, the list of the client's records
  outcome,      \* the dictionary search_web returned
  aCalls,       \* history: calls of the DuckDuckGo client
  aOut,         \* history: "none", "returned" or "raised" (the client call)
  aResults,     \* history: the list search built from the client's records
  bLog,         \* history: one record per search_alternative call
  cCalls,       \* history: calls of get_fallback_results
  delays,       \* history: time.sleep calls of search_alternative
  web_searcher, \* the module's WebSearcher instance (its attributes)
  running,      \* what the host's event loop thread is executing
  otherSteps    \* steps the host has run of another invocation

reqVars  == <<topic, num_results>>
altVars  == <<results, search_divs, idx, caller>>
histVars == <<aCalls, aOut, aResults, bLog, cCalls, delays>>
hostVars == <<web_searcher, running, otherSteps>>
callVars == <<pc, topic, num_results, results, search_divs, idx, caller,
              swResults, ddg_results, outcome, aCalls, aOut, aResults, bLog,
              cCalls, delays>>
vars == <<pc, topic, num_results, results, search_divs, idx, caller,
          swResults, ddg_results, outcome, aCalls, aOut, aResults, bLog,
          cCalls, delays, web_searcher, running, otherSteps>>

-----------------------------------------------------------------------------
(* Bounds of the model *)

\* largest num_results a request carries (the smallest is -1: no validation)
MaxLimit == 6
\* most records the DuckDuckGo client returns when it applies no cap
MaxRecs == 2
\* most result containers (div.g) of a scraped page
MaxDivs == 3

\* most steps the host runs of another invocation
MaxOtherSteps == 2

(* Program constant: the 5 of range(min(5, num_results)) *)
FallbackMax == 5

Min(a, b) == IF a <= b THEN a ELSE b

Topics == {"", "xyz123nonexistent"}
Limits == -1 .. MaxLimit

NoOutcome == [pending |-> TRUE]

-----------------------------------------------------------------------------
(* Texts *)

Digits == <<"0", "1", "2", "3", "4", "5", "6", "7", "8", "9">>

\* f"{i}" for the one-digit numbers the model formats
Str(i) == Digits[i + 1]

RECURSIVE Join(_)
\* the text made of a sequence of characters
Join(s) == IF s = <<>> THEN "" ELSE Head(s) \o Join(Tail(s))

\* the one element of a singleton: {e} is evaluated where it is written, so
\* Only({F(x) : x \in {e}}) computes e once for all its uses in F
Only(S) == CHOOSE x \in S : TRUE

\* str.startswith
StartsWith(s, p) == Len(s) >= Len(p) /\ SubSeq(s, 1, Len(p)) = p

RECURSIVE Split(_, _)
\* str.split(sep): the pieces between the non-overlapping occurrences of
\* sep, found left to right
Split(s, sep) ==
  IF \E i \in 1 .. (Len(s) - Len(sep) + 1) : SubSeq(s, i, i + Len(sep) - 1) = sep
  THEN LET i == CHOOSE j \in 1 .. (Len(s) - Len(sep) + 1) :
                  /\ SubSeq(s, j, j + Len(sep) - 1) = sep
                  /\ \A k \in 1 .. (j - 1) : SubSeq(s, k, k + Len(sep) - 1) # sep
       IN  <<SubSeq(s, 1, i - 1)>> \o Split(SubSeq(s, i + Len(sep), Len(s)), sep)
  ELSE <<s>>

-----------------------------------------------------------------------------
(* The DuckDuckGo client: DDGS.text(query, max_results) *)

\* dict.get(key, default)
Get(d, k, default) == IF k \in DOMAIN d THEN d[k] ELSE default

\* records of the client; a record may leave fields unset
DDGRecords ==
  { [title |-> "Alpha", href |-> "https://alpha.example/", body |-> "About alpha"],
    [title |-> "Beta"],
    [href |-> "https://gamma.example/"] }

SeqsUpTo(S, n) == UNION { [1 .. k -> S] : k \in 0 .. n }

\* What the client may return.  search passes num_results as max_results and
\* cuts nothing itself; the client caps its answer at max_results when that
\* is a positive number, and applies no cap otherwise.
DDGSText(max_results) ==
  { r \in SeqsUpTo(DDGRecords, MaxRecs) : max_results > 0 => Len(r) <= max_results }

\* faulty variant: the link looked up under "url", a key the client never sets
FormatResults_wrong_key(records) ==
  [i \in 1 .. Len(records) |->
     [title   |-> Get(records[i], "title", ""),
      url     |-> Get(records[i], "url", ""),
      snippet |-> Get(records[i], "body", "")]]

\* the list search builds from the client's records
FormatResults(records) ==
  [i \in 1 .. Len(records) |->
     [title   |-> Get(records[i], "title", ""),
      url     |-> Get(records[i], "href", ""),
      snippet |-> Get(records[i], "body", "")]]

-----------------------------------------------------------------------------
(* The scraped page: the div.g containers soup.find_all returns *)

UrlMarker == <<"/", "u", "r", "l", "?", "q", "=">>
Amp == <<"&">>

HrefPlain   == <<"h", ":", "/", "/", "p">>
HrefWrapped == UrlMarker \o <<"h", ":", "/", "/", "s">> \o Amp \o <<"s", "a", "=", "X">>
\* a wrapper whose target holds the text /url?q= itself
HrefNested  == UrlMarker \o <<"h", ":", "/", "/", "s">> \o UrlMarker \o <<"x">>
                 \o Amp \o <<"s", "a", "=", "X">>

\* A container: h3 and snip hold the element's text when the element is
\* there, a holds the first anchor's href (the empty href when the anchor
\* has none); raises marks a container whose extraction raises.
Containers ==
  { [h3 |-> <<"Site">>, a |-> <<HrefWrapped>>, snip |-> <<"about site">>, raises |-> FALSE],
    [h3 |-> <<"Page">>, a |-> <<HrefPlain>>,   snip |-> <<>>,             raises |-> FALSE],
    [h3 |-> <<"Deep">>, a |-> <<HrefNested>>,  snip |-> <<>>,             raises |-> FALSE],
    [h3 |-> <<>>,       a |-> <<HrefPlain>>,   snip |-> <<"no heading">>, raises |-> FALSE],
    [h3 |-> <<"NoA">>,  a |-> <<>>,            snip |-> <<>>,             raises |-> FALSE],
    [h3 |-> <<"NoH">>,  a |-> << <<>> >>,      snip |-> <<"no href">>,    raises |-> FALSE],
    [h3 |-> <<"Bad">>,  a |-> <<HrefPlain>>,   snip |-> <<>>,             raises |-> TRUE] }

Pages == SeqsUpTo(Containers, MaxDivs)

\* the failures of the request, the status check and the parse
GetFailures == {"request", "status", "parse"}

\* url of an href: the redirect wrapper is unwrapped
ExtractUrl(href) ==
  IF StartsWith(href, UrlMarker)
  THEN Only({ Split(rest, Amp)[1] : rest \in {Split(href, UrlMarker)[2]} })
  ELSE href

\* faulty variant: an anchor without href is not tested for
Skipped_no_href_test(div) ==
  IF div.h3 = <<>> THEN TRUE
  ELSE div.a = <<>>

\* the two `continue` tests of the loop
Skipped(div) ==
  IF div.h3 = <<>> THEN TRUE
  ELSE IF div.a = <<>> THEN TRUE
  ELSE div.a[1] = <<>>

\* the dictionary appended for a container that is not skipped
Extract(div) ==
  [title   |-> div.h3[1],
   url     |-> Only({ Join(url) : url \in {ExtractUrl(div.a[1])} }),
   snippet |-> IF div.snip = <<>> THEN "" ELSE div.snip[1]]

-----------------------------------------------------------------------------
(* The static fallback *)

\* faulty variant: range(num_results), the cap of 5 forgotten
get_fallback_results_uncapped(query, n) ==
  [k \in 1 .. n |->
     [title   |-> "Result " \o Str(k) \o " for " \o query,
      url     |-> "https://example.com/result" \o Str(k),
      snippet |-> "This is a sample snippet for search result " \o Str(k)
                    \o " related to " \o query \o "."]]

\* faulty variant: range(1, min(5, num_results)), one placeholder short
get_fallback_results_from1(query, n) ==
  [k \in 1 .. (Min(FallbackMax, n) - 1) |->
     [title   |-> "Result " \o Str(k + 1) \o " for " \o query,
      url     |-> "https://example.com/result" \o Str(k + 1),
      snippet |-> "This is a sample snippet for search result " \o Str(k + 1)
                    \o " related to " \o query \o "."]]

\* faulty variant: numbered i instead of i + 1
get_fallback_results_from0(query, n) ==
  [k \in 1 .. Min(FallbackMax, n) |->
     [title   |-> "Result " \o Str(k - 1) \o " for " \o query,
      url     |-> "https://example.com/result" \o Str(k - 1),
      snippet |-> "This is a sample snippet for search result " \o Str(k - 1)
                    \o " related to " \o query \o "."]]

\* range(min(5, num_results)), numbered i + 1
get_fallback_results(query, n) ==
  [k \in 1 .. Min(FallbackMax, n) |->
     [title   |-> "Result " \o Str(k) \o " for " \o query,
      url     |-> "https://example.com/result" \o Str(k),
      snippet |-> "This is a sample snippet for search result " \o Str(k)
                    \o " related to " \o query \o "."]]

-----------------------------------------------------------------------------
(* Where a raised exception is handled: the try blocks of search (43-59),  *)
(* search_alternative (78-133) and search_web (39-57).  An exception       *)
(* raised inside an except block leaves the function.                      *)

\* faulty variant: the request and the status check made before the try
Handler_get_outside_try(p) ==
  CASE p = "search"     -> "search_except"
    [] p = "alt_loop"   -> "alt_except"
    [] OTHER            -> "sw_except"

\* faulty variant: the loop over search_divs placed after the try statement
Handler_loop_outside_try(p) ==
  CASE p = "search"     -> "search_except"
    [] p = "alt_get"    -> "alt_except"
    [] OTHER            -> "sw_except"

\* faulty variant: search_web's except clause does not match the exception
Handler_no_outer_catch(p) ==
  CASE p = "search"                        -> "search_except"
    [] p \in {"alt_get", "alt_loop"}       -> "alt_except"
    [] OTHER                               -> "raised_to_caller"

Handler(p) ==
  CASE p = "search"                        -> "search_except"
    [] p \in {"alt_get", "alt_loop"}       -> "alt_except"
    [] OTHER                               -> "sw_except"

-----------------------------------------------------------------------------
(* Initial state: the server is up, no invocation yet *)

\* WebSearcher.__init__
Constructed ==
  [headers |-> [UserAgent |-> "Mozilla/5.0 (Macintosh; Intel Mac OS X 10_15_7) AppleWebKit/537.36 (KHTML, like Gecko) Chrome/120.0.0.0 Safari/537.36"],
   google_search_url |-> "https://www.google.com/search",
   ddgs |-> "DDGS()"]

Init ==
  /\ pc = "idle"
  /\ web_searcher = Constructed
  /\ running = "none"
  /\ otherSteps = 0
  /\ ddg_results = <<>>
  /\ topic = ""
  /\ num_results = 0
  /\ results = <<>>
  /\ search_divs = <<>>
  /\ idx = 0
  /\ caller = "none"
  /\ swResults = <<>>
  /\ outcome = NoOutcome
  /\ aCalls = 0
  /\ aOut = "none"
  /\ aResults = <<>>
  /\ bLog = <<>>
  /\ cCalls = 0
  /\ delays = 0

\* search_web(topic, num_results) up to its call of web_searcher.search
Invoke ==
  /\ pc = "idle"
  /\ \E t \in Topics, n \in Limits :
       /\ topic' = t
       /\ num_results' = n
  /\ pc' = "search"
  /\ UNCHANGED <<altVars, swResults, outcome, histVars>>
  /\ UNCHANGED <<ddg_results, hostVars>>

\* search: the client answers; the records are formatted and returned to
\* search_web, which binds them to its `results`
SearchOk ==
  /\ pc = "search"
  /\ \E r \in DDGSText(num_results) :
       /\ ddg_results' = r
       /\ aResults' = FormatResults(r)
       /\ swResults' = FormatResults(r)
  /\ aCalls' = aCalls + 1
  /\ aOut' = "returned"
  /\ pc' = "sw_check"
  /\ UNCHANGED <<reqVars, altVars, outcome, bLog, cCalls, delays>>
  /\ UNCHANGED hostVars

\* search: the client raises
SearchRaise ==
  /\ pc = "search"
  /\ aCalls' = aCalls + 1
  /\ aOut' = "raised"
  /\ pc' = Handler("search")
  /\ UNCHANGED <<reqVars, altVars, swResults, outcome, aResults, bLog, cCalls, delays>>
  /\ UNCHANGED <<ddg_results, hostVars>>

\* a call of search_alternative by `who`
EnterAlternative(who) ==
  /\ caller' = who
  /\ bLog' = Append(bLog, [caller |-> who, fail |-> "none", out |-> "running",
                           value |-> <<>>, partial |-> <<>>])
  /\ pc' = "alt_get"
  /\ results' = <<>>
  /\ search_divs' = <<>>
  /\ idx' = 0

\* faulty variant: the except block logs and raises again
SearchExcept_reraise ==
  /\ pc = "search_except"
  /\ pc' = Handler("search_except")
  /\ UNCHANGED <<reqVars, altVars, swResults, outcome, histVars>>
  /\ UNCHANGED <<ddg_results, hostVars>>

\* search's except block: return await self.search_alternative(...)
SearchExcept ==
  /\ pc = "search_except"
  /\ EnterAlternative("search")
  /\ UNCHANGED <<reqVars, swResults, outcome, aCalls, aOut, aResults, cCalls, delays>>
  /\ UNCHANGED <<ddg_results, hostVars>>

\* faulty variant: the request URL is kept in self.google_search_url
AltGet_keeps_url ==
  /\ pc = "alt_get"
  /\ \E page \in Pages : search_divs' = page
  /\ results' = <<>>
  /\ idx' = 1
  /\ pc' = "alt_loop"
  /\ web_searcher' = [web_searcher EXCEPT
                        !.google_search_url = @ \o "?q=" \o topic]
  /\ UNCHANGED <<reqVars, caller, swResults, outcome, histVars>>
  /\ UNCHANGED <<ddg_results, running, otherSteps>>

\* search_alternative: the GET, raise_for_status and the parse succeed
AltGet ==
  /\ pc = "alt_get"
  /\ \E page \in Pages : search_divs' = page
  /\ results' = <<>>
  /\ idx' = 1
  /\ pc' = "alt_loop"
  /\ UNCHANGED <<reqVars, caller, swResults, outcome, histVars>>
  /\ UNCHANGED <<ddg_results, hostVars>>

\* an exception `why` raised at statement p of search_alternative: it goes to
\* the function's except block when p is inside the try, and leaves the
\* function otherwise
RaiseInAlternative(p, why) ==
  /\ pc' = Handler(p)
  /\ bLog' = [bLog EXCEPT ![Len(bLog)].fail = why,
                          ![Len(bLog)].out =
                             IF Handler(p) = "alt_except" THEN "running" ELSE "raised"]

\* search_alternative: the GET, raise_for_status or the parse raises
AltGetFail ==
  /\ pc = "alt_get"
  /\ \E why \in GetFailures : RaiseInAlternative("alt_get", why)
  /\ UNCHANGED <<reqVars, altVars, swResults, outcome, aCalls, aOut, aResults, cCalls, delays>>
  /\ UNCHANGED <<ddg_results, hostVars>>

\* faulty variant: the sleep placed before the tests, made on every turn
AltLoop_sleep_every_turn ==
  /\ pc = "alt_loop"
  /\ \/ /\ idx > Len(search_divs) \/ Len(results) >= num_results
        /\ pc' = "alt_return"
        /\ UNCHANGED <<results, idx, bLog, delays>>
     \/ /\ idx <= Len(search_divs) /\ Len(results) < num_results
        /\ search_divs[idx].raises
        /\ RaiseInAlternative("alt_loop", "extract")
        /\ UNCHANGED <<results, idx, delays>>
     \/ /\ idx <= Len(search_divs) /\ Len(results) < num_results
        /\ ~search_divs[idx].raises
        /\ Skipped(search_divs[idx])
        /\ delays' = delays + 1
        /\ idx' = idx + 1
        /\ UNCHANGED <<pc, results, bLog>>
     \/ /\ idx <= Len(search_divs) /\ Len(results) < num_results
        /\ ~search_divs[idx].raises
        /\ ~Skipped(search_divs[idx])
        /\ results' = Append(results, Extract(search_divs[idx]))
        /\ delays' = delays + 1
        /\ idx' = idx + 1
        /\ UNCHANGED <<pc, bLog>>
  /\ UNCHANGED <<reqVars, search_divs, caller, swResults, outcome,
                 aCalls, aOut, aResults, cCalls>>
  /\ UNCHANGED <<ddg_results, hostVars>>

\* search_alternative: one turn of the for loop over search_divs
AltLoop ==
  /\ pc = "alt_loop"
  /\ \/ \* the containers are used up, or the break
        /\ idx > Len(search_divs) \/ Len(results) >= num_results
        /\ pc' = "alt_return"
        /\ UNCHANGED <<results, idx, bLog, delays>>
     \/ \* extraction raises
        /\ idx <= Len(search_divs) /\ Len(results) < num_results
        /\ search_divs[idx].raises
        /\ RaiseInAlternative("alt_loop", "extract")
        /\ UNCHANGED <<results, idx, delays>>
     \/ \* continue
        /\ idx <= Len(search_divs) /\ Len(results) < num_results
        /\ ~search_divs[idx].raises
        /\ Skipped(search_divs[idx])
        /\ idx' = idx + 1
        /\ UNCHANGED <<pc, results, bLog, delays>>
     \/ \* append and sleep
        /\ idx <= Len(search_divs) /\ Len(results) < num_results
        /\ ~search_divs[idx].raises
        /\ ~Skipped(search_divs[idx])
        /\ results' = Append(results, Extract(search_divs[idx]))
        /\ delays' = delays + 1
        /\ idx' = idx + 1
        /\ UNCHANGED <<pc, bLog>>
  /\ UNCHANGED <<reqVars, search_divs, caller, swResults, outcome,
                 aCalls, aOut, aResults, cCalls>>
  /\ UNCHANGED <<ddg_results, hostVars>>

\* faulty variant: search_web's test a loop (while not results:), so that a
\* return of the call of line 46 is tested again
ReturnFromAlternative_while(value) ==
  /\ swResults' = value
  /\ pc' = "sw_check"
  /\ caller' = "none"
  /\ results' = <<>>
  /\ search_divs' = <<>>
  /\ idx' = 0

\* a return of search_alternative with `value`: search (line 62) returns it
\* on to search_web's line 41, search_web's line 46 keeps it
ReturnFromAlternative(value) ==
  /\ swResults' = value
  /\ pc' = IF caller = "search" THEN "sw_check" ELSE "sw_return"
  /\ caller' = "none"
  /\ results' = <<>>
  /\ search_divs' = <<>>
  /\ idx' = 0

\* search_alternative: return results
AltReturn ==
  /\ pc = "alt_return"
  /\ bLog' = [bLog EXCEPT ![Len(bLog)].out = "returned", ![Len(bLog)].value = results]
  /\ ReturnFromAlternative(results)
  /\ UNCHANGED <<reqVars, outcome, aCalls, aOut, aResults, cCalls, delays>>
  /\ UNCHANGED <<ddg_results, hostVars>>

\* faulty variant: the placeholders are added to what the loop had collected
AltExcept_mixed ==
  /\ pc = "alt_except"
  /\ cCalls' = cCalls + 1
  /\ bLog' = [bLog EXCEPT ![Len(bLog)].out = "returned",
                          ![Len(bLog)].value =
                             results \o get_fallback_results(topic, num_results),
                          ![Len(bLog)].partial = results]
  /\ ReturnFromAlternative(results \o get_fallback_results(topic, num_results))
  /\ UNCHANGED <<reqVars, outcome, aCalls, aOut, aResults, delays>>
  /\ UNCHANGED <<ddg_results, hostVars>>

\* search_alternative's except block: return self.get_fallback_results(...)
AltExcept ==
  /\ pc = "alt_except"
  /\ cCalls' = cCalls + 1
  /\ bLog' = [bLog EXCEPT ![Len(bLog)].out = "returned",
                          ![Len(bLog)].value = get_fallback_results(topic, num_results),
                          ![Len(bLog)].partial = results]
  /\ ReturnFromAlternative(get_fallback_results(topic, num_results))
  /\ UNCHANGED <<reqVars, outcome, aCalls, aOut, aResults, delays>>
  /\ UNCHANGED <<ddg_results, hostVars>>

\* faulty variant: the test inverted (if results:)
SwCheck_inverted ==
  /\ pc = "sw_check"
  /\ IF swResults # <<>>
     THEN EnterAlternative("search_web")
     ELSE /\ pc' = "sw_return"
          /\ UNCHANGED <<altVars, bLog>>
  /\ UNCHANGED <<reqVars, swResults, outcome, aCalls, aOut, aResults, cCalls, delays>>
  /\ UNCHANGED <<ddg_results, hostVars>>

\* search_web: if not results: results = await search_alternative(...)
SwCheck ==
  /\ pc = "sw_check"
  /\ IF swResults = <<>>
     THEN EnterAlternative("search_web")
     ELSE /\ pc' = "sw_return"
          /\ UNCHANGED <<altVars, bLog>>
  /\ UNCHANGED <<reqVars, swResults, outcome, aCalls, aOut, aResults, cCalls, delays>>
  /\ UNCHANGED <<ddg_results, hostVars>>

\* faulty variant: count taken from the request instead of the list
SwReturn_count_requested ==
  /\ pc = "sw_return"
  /\ outcome' = [topic |-> topic, results |-> swResults, count |-> num_results]
  /\ pc' = "done"
  /\ UNCHANGED <<reqVars, altVars, swResults, histVars>>
  /\ UNCHANGED <<ddg_results, hostVars>>

\* search_web: the returned dictionary of the try block
SwReturn ==
  /\ pc = "sw_return"
  /\ outcome' = [topic |-> topic, results |-> swResults, count |-> Len(swResults)]
  /\ pc' = "done"
  /\ UNCHANGED <<reqVars, altVars, swResults, histVars>>
  /\ UNCHANGED <<ddg_results, hostVars>>

\* an exception raised inside search_alternative's except block (133-135):
\* no try of search_alternative or of search covers it, it reaches search_web
AltExceptFault ==
  /\ pc = "alt_except"
  /\ RaiseInAlternative("alt_except", bLog[Len(bLog)].fail)
  /\ caller' = "none"
  /\ results' = <<>>
  /\ search_divs' = <<>>
  /\ idx' = 0
  /\ UNCHANGED <<reqVars, swResults, outcome, aCalls, aOut, aResults, cCalls, delays>>
  /\ UNCHANGED <<ddg_results, hostVars>>

\* faulty variant: the placeholders are returned beside the error
SwExcept_with_fallback ==
  /\ pc = "sw_except"
  /\ outcome' = [topic |-> topic, error |-> "str(e)",
                 results |-> get_fallback_results(topic, num_results),
                 count |-> Len(get_fallback_results(topic, num_results))]
  /\ pc' = "done"
  /\ UNCHANGED <<reqVars, altVars, swResults, histVars>>
  /\ UNCHANGED <<ddg_results, hostVars>>

\* search_web's except block: the error dictionary
SwExcept ==
  /\ pc = "sw_except"
  /\ outcome' = [topic |-> topic, error |-> "str(e)", results |-> <<>>, count |-> 0]
  /\ pc' = "done"
  /\ UNCHANGED <<reqVars, altVars, swResults, histVars>>
  /\ UNCHANGED <<ddg_results, hostVars>>

Next ==
  \/ Invoke
  \/ SearchOk
  \/ SearchRaise
  \/ SearchExcept
  \/ AltGet
  \/ AltGetFail
  \/ AltLoop
  \/ AltReturn
  \/ AltExcept
  \/ SwCheck
  \/ SwReturn

\* strategy failures only: the client, the GET, the status, the parse and
\* the extraction may fail
Spec == Init /\ [][Next]_vars

NextFault ==
  \/ Next
  \/ AltExceptFault
  \/ SwExcept

\* as Spec, and an exception may also be raised inside an except block
SpecFault == Init /\ [][NextFault]_vars

\* a statement of an invocation under way.  Every statement of search_web,
\* search and search_alternative runs to its end once the client's call, the
\* GET and the sleep return or raise; the for loop is over a finite list.
Running == pc # "idle" /\ NextFault

\* as SpecFault, and an invocation under way is not left standing: its next
\* statement is executed
SpecLive == Init /\ [][NextFault]_vars /\ WF_vars(Running)

-----------------------------------------------------------------------------
(* The host: server.run serves the tool on one event loop thread.  The     *)
(* thread runs one coroutine at a time, up to the point where the          *)
(* coroutine suspends or returns.  search_web, search and                  *)
(* search_alternative hold no such point: their awaits (main.py 41 and 46, *)
(* search.py 62) are of coroutines of this module, and requests.get        *)
(* (search.py 86) and time.sleep (search.py 128) are plain calls, so every *)
(* statement above leaves `running` as it is.                              *)

\* the loop starts (or resumes) this invocation
DispatchMain ==
  /\ running = "none"
  /\ pc # "done"
  /\ running' = "main"
  /\ UNCHANGED <<callVars, web_searcher, otherSteps>>

\* the loop resumes another invocation
DispatchOther ==
  /\ running = "none"
  /\ otherSteps < MaxOtherSteps
  /\ running' = "other"
  /\ UNCHANGED <<callVars, web_searcher, otherSteps>>

\* this invocation executes its next statement on the loop's thread
MainStep ==
  /\ running = "main"
  /\ Next

\* search_web has returned: the thread is back in the loop
MainReturn ==
  /\ running = "main"
  /\ pc = "done"
  /\ running' = "none"
  /\ UNCHANGED <<callVars, web_searcher, otherSteps>>

\* another invocation runs a step and gives the thread back
OtherStep ==
  /\ running = "other"
  /\ otherSteps' = otherSteps + 1
  /\ running' = "none"
  /\ UNCHANGED <<callVars, web_searcher>>

NextLoop ==
  \/ DispatchMain
  \/ DispatchOther
  \/ MainStep
  \/ MainReturn
  \/ OtherStep

\* the invocation served by the single-threaded host, beside another one
SpecLoop == Init /\ [][NextLoop]_vars

-----------------------------------------------------------------------------
(* Vocabulary of the properties *)

Done == pc = "done"
NoError == "error" \notin DOMAIN outcome
BCalls == 1 .. Len(bLog)
AReturnedSome == aOut = "returned" /\ aResults # <<>>
AReturnedEmpty == aOut = "returned" /\ aResults = <<>>
ARaised == aOut = "raised"
\* the call of search_alternative numbered i has returned
BReturned(i) == bLog[i].out = "returned"
\* ... after a failure inside it / without one
BFailed(i) == BReturned(i) /\ bLog[i].fail # "none"
BSucceeded(i) == BReturned(i) /\ bLog[i].fail = "none"
\* the k-th placeholder for topic, as section 4.4 of the specification words it
Placeholder(k) ==
  [title   |-> "Result " \o Digits[k + 1] \o " for " \o topic,
   url     |-> "https://example.com/result" \o Digits[k + 1],
   snippet |-> "This is a sample snippet for search result " \o Digits[k + 1]
                 \o " related to " \o topic \o "."]

-----------------------------------------------------------------------------
\* C1: when the DuckDuckGo call of search returns at least one result,
\* search_alternative is never called during the request and the outcome's
\* results are search's mapped results, in the same order.
C1_PrimaryResultsVerbatim ==
  AReturnedSome =>
    /\ bLog = <<>>
    /\ cCalls = 0
    /\ Done => (NoError /\ outcome.results = aResults)

C1_Witness ==
  /\ Done
  /\ AReturnedSome
  /\ Len(aResults) = 2
  /\ aResults[1] # aResults[2]
  /\ outcome.results = aResults

\* C2: when the DuckDuckGo call returns an empty sequence or raises,
\* search_alternative is called exactly once in the request, whatever it
\* returns.  Stated for the requests with a positive limit.
C2_AlternativeExactlyOnce ==
  (Done /\ num_results >= 1 /\ (AReturnedEmpty \/ ARaised)) => Len(bLog) = 1

\* C3: for limit >= 0, a search_alternative call that fails inside returns
\* exactly get_fallback_results(topic, limit), of length min(5, limit), and
\* nothing the loop had collected is mixed in.
C3_FailedScrapeReturnsFallback ==
  \A i \in BCalls :
    (BFailed(i) /\ num_results >= 0) =>
      /\ bLog[i].value = get_fallback_results(topic, num_results)
      /\ Len(bLog[i].value) = Min(5, num_results)
      /\ \A k \in 1 .. Len(bLog[i].value) : bLog[i].value[k] = Placeholder(k)
      /\ \A j \in 1 .. Len(bLog[i].partial) :
           \A k \in 1 .. Len(bLog[i].value) : bLog[i].value[k] # bLog[i].partial[j]

C3_Witness ==
  \E i \in BCalls :
    /\ BFailed(i)
    /\ bLog[i].fail = "extract"
    /\ bLog[i].partial # <<>>
    /\ Len(bLog[i].value) = 5

\* C4: for limit >= 0, when the DuckDuckGo call fails and every
\* search_alternative call fails, the outcome holds the placeholders of
\* get_fallback_results for (topic, limit), 5 of them when limit >= 5, each
\* naming the topic; count is their number and there is no error field.
C4_AllFailGivesPlaceholders ==
  (Done /\ num_results >= 0 /\ ARaised /\ \A i \in BCalls : BFailed(i)) =>
    /\ NoError
    /\ outcome.topic = topic
    /\ outcome.count = Min(5, num_results)
    /\ Len(outcome.results) = outcome.count
    /\ num_results >= 5 => outcome.count = 5
    /\ \A k \in 1 .. Len(outcome.results) : outcome.results[k] = Placeholder(k)

C4_Witness ==
  /\ Done
  /\ ARaised
  /\ bLog # <<>>
  /\ \A i \in BCalls : BFailed(i)
  /\ topic = "xyz123nonexistent"
  /\ num_results > 5
  /\ outcome.count = 5

\* C5: an empty sequence returned by a search_alternative call that did not
\* fail is what the caller gets: no strategy call follows it and
\* get_fallback_results is not called for it; get_fallback_results is called
\* only by a search_alternative call that failed.  Stated for the requests
\* with a positive limit.
C5_EmptyScrapeReturnedAsIs ==
  /\ \A i \in BCalls :
       (num_results >= 1 /\ BSucceeded(i) /\ bLog[i].value = <<>>) =>
         /\ Len(bLog) = i
         /\ Done => outcome.results = <<>>
  /\ cCalls = Cardinality({i \in BCalls : BFailed(i)})

\* C6 (as stated): an outcome without error has empty results only if both
\* the DuckDuckGo call and search_alternative returned empty sequences
\* without raising.  Stated for the requests with a positive limit.
C6_EmptyOnlyIfBothEmpty ==
  (Done /\ num_results >= 1 /\ NoError /\ outcome.results = <<>>) =>
    /\ AReturnedEmpty
    /\ bLog # <<>>
    /\ \A i \in BCalls : BSucceeded(i) /\ bLog[i].value = <<>>

\* C6 (amended): an outcome without error has empty results exactly when the
\* DuckDuckGo call gave no result (it returned an empty sequence or raised)
\* and the last search_alternative call of the request either returned an
\* empty sequence without failing or failed with limit <= 0.
C6_EmptyExactlyWhen ==
  (Done /\ NoError) =>
    (outcome.results = <<>>
       <=> /\ AReturnedEmpty \/ ARaised
           /\ bLog # <<>>
           /\ LET last == Len(bLog) IN
                IF bLog = <<>> THEN FALSE
                ELSE \/ BSucceeded(last) /\ bLog[last].value = <<>>
                     \/ BFailed(last) /\ num_results <= 0)

C6_Witness ==
  /\ Done
  /\ NoError
  /\ outcome.results = <<>>
  /\ ARaised
  /\ num_results >= 1
  /\ Len(bLog) = 2

\* C7: every outcome search_web returns, from the try block or from the
\* except block, has count equal to the length of results.
C7_CountIsLength ==
  Done => outcome.count = Len(outcome.results)

C7_Witness ==
  /\ Done
  /\ NoError
  /\ outcome.count >= 2
  /\ outcome.count # num_results

\* C8: for limit >= 0 none of search, search_alternative and
\* get_fallback_results returns more than limit results, and the outcome's
\* count never exceeds limit.
C8_NoStrategyExceedsLimit ==
  num_results >= 0 =>
    /\ Len(aResults) <= num_results
    /\ \A i \in BCalls : Len(bLog[i].value) <= num_results
    /\ Done => outcome.count <= num_results

\* C9: search_alternative never raises to its caller: whichever of the
\* request, the status check, the parse and the extraction fails, the call
\* returns a sequence, and the exception reaches neither search nor
\* search_web.
C9_AlternativeNeverRaises ==
  /\ pc # "sw_except"
  /\ \A i \in BCalls :
       /\ bLog[i].out # "raised"
       /\ (bLog[i].fail # "none" /\ pc \notin {"alt_except"}) => BReturned(i)
  /\ Done => (NoError /\ \A i \in BCalls : BReturned(i))

C9_Witness ==
  /\ Done
  /\ NoError
  /\ \E i \in BCalls :
       /\ BFailed(i)
       /\ bLog[i].fail = "status"
       /\ bLog[i].caller = "search_web"
       /\ outcome.results = bLog[i].value
       /\ outcome.results # <<>>

\* C10 (as stated): when the client fails, search makes no retrieval attempt
\* of its own; the failure is raised to search_web, which catches it and
\* makes the search_alternative call.  Stated for the requests with a
\* positive limit.
C10_FailureSurfacedToOrchestrator ==
  (ARaised /\ num_results >= 1) =>
    /\ aCalls = 1
    /\ \A i \in BCalls : bLog[i].caller = "search_web"

\* C10 (amended): when the client fails, search does not call the client
\* again; it catches the failure itself and makes one search_alternative
\* call, whose result it returns.  Nothing is raised to search_web, which
\* calls search_alternative itself only when that result is empty.
C10_FailureHandledInsideSearch ==
  ARaised =>
    /\ aCalls = 1
    /\ pc # "sw_except"
    /\ pc # "search_except" =>
         /\ bLog # <<>>
         /\ bLog[1].caller = "search"
    /\ \A i \in BCalls : i >= 2 =>
         /\ bLog[i].caller = "search_web"
         /\ i = 2
         /\ BReturned(1) /\ bLog[1].value = <<>>
    /\ Done => NoError

C10_Witness ==
  /\ Done
  /\ ARaised
  /\ Len(bLog) = 1
  /\ bLog[1].caller = "search"
  /\ BSucceeded(1)
  /\ outcome.results = bLog[1].value
  /\ outcome.results # <<>>

\* C11: an outcome carries an error field only when an exception left the
\* strategy calls (search_alternative and, when search made the call, search
\* too) and was caught by search_web's except block; every outcome with an
\* error field has results [] and count 0.
C11_ErrorOnlyFromEscapedException ==
  Done =>
    /\ (~NoError) <=> (\E i \in BCalls : bLog[i].out = "raised")
    /\ (~NoError) =>
         /\ outcome.results = <<>>
         /\ outcome.count = 0
         /\ outcome.topic = topic

C11_Witness ==
  /\ Done
  /\ ~NoError
  /\ num_results >= 1
  /\ ARaised
  /\ bLog[1].caller = "search"
  /\ bLog[1].out = "raised"
  /\ bLog[1].partial = <<>>
  /\ outcome.results = <<>>

\* the statements of search_web and of the methods it calls
Statements ==
  {"idle", "search", "search_except", "alt_get", "alt_loop", "alt_return",
   "alt_except", "sw_check", "sw_return", "sw_except", "done"}

\* C12: for every topic, the empty text included, and every num_results, no
\* exception leaves search_web: the invocation returns a dictionary holding
\* topic (the request's), results and count, and a failure shows only as the
\* error field.
C12_NeverRaisesToToolCaller ==
  /\ pc \in Statements
  /\ Done =>
       /\ {"topic", "results", "count"} \subseteq DOMAIN outcome
       /\ DOMAIN outcome \subseteq {"topic", "results", "count", "error"}
       /\ outcome.topic = topic
       /\ outcome.count \in Nat
       /\ \A k \in 1 .. Len(outcome.results) :
            DOMAIN outcome.results[k] = {"title", "url", "snippet"}

C12_Witness ==
  /\ Done
  /\ topic = ""
  /\ ~NoError
  /\ outcome.topic = ""
  /\ \E i \in BCalls : bLog[i].caller = "search_web" /\ bLog[i].out = "raised"

\* search_alternative is at its HTTP GET
InGet == pc = "alt_get"

\* search_alternative is at the append and time.sleep of a loop turn
InDelay ==
  /\ pc = "alt_loop"
  /\ idx <= Len(search_divs)
  /\ Len(results) < num_results
  /\ ~search_divs[idx].raises
  /\ ~Skipped(search_divs[idx])

\* C13: while the invocation is inside search_alternative's GET or inside
\* its delay, another invocation that has steps left can take one: the host
\* can resume it or it is running.
C13_OthersProgressDuringScrape ==
  ((InGet \/ InDelay) /\ otherSteps < MaxOtherSteps) =>
    (ENABLED DispatchOther \/ ENABLED OtherStep)

\* what the strategies answered to this invocation's own calls
OwnResults ==
  IF AReturnedSome THEN aResults ELSE bLog[Len(bLog)].value

C15_FallbackIsDeterministicTemplate ==
  /\ cCalls = Cardinality({i \in BCalls : BFailed(i)})
  /\ \A i \in BCalls : BFailed(i) =>
       LET v == bLog[i].value IN
         /\ num_results >= 0 =>
              Len(v) = (IF num_results < 5 THEN num_results ELSE 5)
         /\ \A k \in 1 .. Len(v) :
              /\ DOMAIN v[k] = {"title", "url", "snippet"}
              /\ v[k].title = "Result " \o Digits[k + 1] \o " for " \o topic
              /\ v[k].url = "https://example.com/result" \o Digits[k + 1]
              /\ v[k].snippet = "This is a sample snippet for search result "
                                  \o Digits[k + 1] \o " related to " \o topic \o "."
         /\ \A j \in BCalls : BFailed(j) => bLog[j].value = v

C15_Witness ==
  /\ topic = "xyz123nonexistent"
  /\ num_results = 3
  /\ \E i \in BCalls :
       /\ BFailed(i)
       /\ Len(bLog[i].value) = 3
       /\ bLog[i].value[3].title = "Result 3 for xyz123nonexistent"
       /\ bLog[i].value[3].url = "https://example.com/result3"

\* the text of s before its first "&", all of s when it has none
UpToAmp(s) ==
  IF \E i \in 1 .. Len(s) : s[i] = "&"
  THEN SubSeq(s, 1, (CHOOSE i \in 1 .. Len(s) :
                       s[i] = "&" /\ \A j \in 1 .. (i - 1) : s[j] # "&") - 1)
  ELSE s

\* the target of an href: what follows the prefix /url?q= up to the next
\* "&"; an href without the prefix is its own target
Target(href) ==
  IF StartsWith(href, UrlMarker)
  THEN UpToAmp(SubSeq(href, Len(UrlMarker) + 1, Len(href)))
  ELSE href

\* the containers the loop has accepted so far
AcceptedSoFar ==
  SelectSeq(SubSeq(search_divs, 1, idx - 1), LAMBDA d : ~Skipped(d))

\* C16: the url search_alternative extracts from an href /url?q=<target>&...
\* is <target>, the text between the prefix and the next "&" (the whole
\* rest when there is no "&"); any other href is taken unchanged.
C16_UrlIsTarget ==
  pc \in {"alt_loop", "alt_return"} =>
    /\ Len(results) = Len(AcceptedSoFar)
    /\ \A k \in 1 .. Len(results) :
         results[k].url = Join(Target(AcceptedSoFar[k].a[1]))

\* a container with a heading element and a first anchor whose href is not
\* empty
Acceptable(d) == d.h3 # <<>> /\ d.a # <<>> /\ d.a # << <<>> >>

\* the first n elements of s, all of s when it has fewer
FirstN(s, n) == SubSeq(s, 1, Min(n, Len(s)))

\* C17: a scrape that succeeds returns the first num_results acceptable
\* containers of the page in document order; the containers that are not
\* acceptable are passed over, a container without snippet element gives the
\* snippet "", and a list shorter than num_results is returned all the same.
C17_FirstAcceptableContainers ==
  pc = "alt_return" =>
    LET want == FirstN(SelectSeq(search_divs, Acceptable), num_results) IN
      /\ bLog[Len(bLog)].fail = "none"
      /\ Len(results) = Len(want)
      /\ \A k \in 1 .. Len(want) :
           /\ results[k].title = want[k].h3[1]
           /\ results[k].snippet =
                (IF want[k].snip = <<>> THEN "" ELSE want[k].snip[1])
           /\ \E h \in {HrefPlain, HrefWrapped, HrefNested} :
                want[k].a[1] = h /\ results[k].url = Join(ExtractUrl(h))

\* a limit of 1: the first container is passed over, the second is taken
\* with an empty snippet, the third, acceptable too, is left out
C17_Witness ==
  /\ pc = "alt_return"
  /\ num_results = 1
  /\ Len(search_divs) = 3
  /\ ~Acceptable(search_divs[1])
  /\ Acceptable(search_divs[2]) /\ search_divs[2].snip = <<>>
  /\ Acceptable(search_divs[3])
  /\ Len(results) = 1 /\ results[1].snippet = ""

\* the results the i-th call of search_alternative had accepted when it
\* returned: what it returned, or what the loop held when it raised
AcceptedBy(i) ==
  IF bLog[i].fail = "none" THEN Len(bLog[i].value) ELSE Len(bLog[i].partial)

RECURSIVE AcceptedByReturned(_)
AcceptedByReturned(n) ==
  IF n = 0 THEN 0
  ELSE AcceptedByReturned(n - 1) + (IF BReturned(n) THEN AcceptedBy(n) ELSE 0)

\* C18: search_alternative sleeps once for each result it accepts and at no
\* other time: the sleeps made so far are as many as the results accepted by
\* the calls that have returned and by the call under way, so a scrape that
\* succeeds has slept as often as it returns results.
C18_DelayPerAcceptedResult ==
  delays = AcceptedByReturned(Len(bLog)) + Len(results)

\* a scrape that passes over a container and accepts two has slept twice
C18_Witness ==
  /\ pc = "alt_return"
  /\ Len(bLog) = 1
  /\ Len(search_divs) = 3
  /\ \E k \in 1 .. 3 : ~search_divs[k].raises /\ Skipped(search_divs[k])
  /\ Len(results) = 2
  /\ delays = 2

\* the field f of a client record as text: its value when set, "" when not
FieldText(rec, f) == IF f \in DOMAIN rec THEN rec[f] ELSE ""

\* C19: what search returns has one result for each record of the client, in
\* the client's order; each result has exactly the fields title, url and
\* snippet, all text, holding the record's title, href and body, and "" for
\* a field the record leaves unset.
C19_RecordsMappedOneToOne ==
  aOut = "returned" =>
    /\ Len(aResults) = Len(ddg_results)
    /\ \A i \in 1 .. Len(aResults) :
         /\ DOMAIN aResults[i] = {"title", "url", "snippet"}
         /\ \A f \in DOMAIN aResults[i] : aResults[i][f] \in STRING
         /\ aResults[i].title = FieldText(ddg_results[i], "title")
         /\ aResults[i].url = FieldText(ddg_results[i], "href")
         /\ aResults[i].snippet = FieldText(ddg_results[i], "body")

\* two records, the first complete, the second with nothing but a title
C19_Witness ==
  /\ aOut = "returned"
  /\ Len(ddg_results) = 2
  /\ DOMAIN ddg_results[1] = {"title", "href", "body"}
  /\ DOMAIN ddg_results[2] = {"title"}
  /\ aResults[1].url = ddg_results[1].href
  /\ aResults[2].url = "" /\ aResults[2].snippet = ""

\* C20: when nothing fails but the strategies (the client raises, the request,
\* the status check, the parse or an extraction raises), search_web's except
\* block is never entered and no outcome has an error field.
C20_NoErrorFromStrategyFailures ==
  /\ pc # "sw_except"
  /\ outcome # NoOutcome => NoError

\* the client raises and the scrape that follows raises in an extraction
C20_Witness ==
  /\ Done
  /\ NoError
  /\ num_results >= 1
  /\ ARaised
  /\ bLog[1].fail = "extract"
  /\ outcome.count = Min(FallbackMax, num_results)

\* C21: an invocation of search_web whose external calls all return or raise
\* ends with an outcome; along it the client is called once and no more,
\* search_alternative is entered at most twice and get_fallback_results is
\* called at most twice.
C21_TerminatesWithBoundedCalls ==
  /\ [](aCalls <= 1 /\ Len(bLog) <= 2 /\ cCalls <= 2)
  /\ [](pc \notin {"idle", "search"} => aCalls = 1)
  /\ [](Done => outcome # NoOutcome)
  /\ (pc = "search") ~> Done

\* the longest chain: the client raises, both calls of search_alternative
\* fail and each takes the fallback
C21_Witness ==
  /\ Done
  /\ aCalls = 1
  /\ ARaised
  /\ Len(bLog) = 2
  /\ BFailed(1) /\ BFailed(2)
  /\ cCalls = 2

====
